---------------------------- MODULE Spec2Model ----------------------------
(***************************************************************************)
(* CvExtractorProject, Angular front end: the CV display component         *)
(* (document preview + edit session + skill auto-save), the CV service     *)
(* (central record store and HTTP wrappers) and the CV upload component    *)
(* (duplicate resolution).  One action per event callback: user action,    *)
(* HTTP completion, timer expiry, store notification.  Execution is        *)
(* single-threaded, so every action is one macro-task together with the    *)
(* micro-tasks (promise continuations) it triggers.                        *)
(***************************************************************************)
EXTENDS Naturals, Sequences, FiniteSets, TLC

(***************************************************************************)
(* Bounds of the model                                                     *)
(***************************************************************************)
MaxUploads == 2
MaxLoads == 2
MaxSaves == 2
MaxPatches == 2
MaxExp == 2
MaxSaveRows == 1
MaxSkills == 2
MaxExports == 2

(***************************************************************************)
(* Values                                                                  *)
(***************************************************************************)
\* JavaScript null / undefined for a string-valued field
Null == "<null>"

\* An Experience as the form sees it: a required control (poste) and an
\* optional one (description).  entreprise and periode are built and compared
\* by the same code as poste, mention-like optional fields as description.
Absent == "<absent>"
E1 == [poste |-> "p1", description |-> Absent]
BlankExp == [poste |-> "", description |-> ""]

\* A nested sequence that is undefined on the record
AbsentSeq == <<[poste |-> Absent, description |-> Absent]>>
AbsentSkills == <<Absent>>

\* File names are sequences of characters
NoName == <<>>
NamePdf == <<"a", ".", "p", "d", "f">>
NameDocx == <<"b", ".", "D", "O", "C", "X">>
NameDoc == <<"c", ".", "d", "o", "c">>
NameTxt == <<"d", ".", "t", "x", "t">>
NamePdfUpper == <<"e", ".", "P", "d", "F">>
NameBare == <<"p", "d", "f">>
NameDocm == <<"g", ".", "d", "o", "c", "m">>
NamePdfTxt == <<"h", ".", "p", "d", "f", ".", "t", "x", "t">>

\* CVData (models/cv.model.ts): the fields the components read or write
RecA == [id |-> "A", nom |-> "n1", exps |-> <<E1>>, skills |-> <<"s1">>,
         fname |-> NamePdf]
RecB == [id |-> "B", nom |-> Null, exps |-> <<>>, skills |-> <<>>,
         fname |-> NameDocx]
NoCV == [id |-> "<none>", nom |-> Null, exps |-> AbsentSeq,
         skills |-> AbsentSkills, fname |-> NoName]
Catalogue == {RecA, RecB}

\* The files the user can pick, and the record the extraction backend
\* builds from each
Files == {"f1", "f2"}
NoFile == "<nofile>"
ServerRecord(f) == IF f = "f1" THEN RecA ELSE RecB

VARIABLES
  \* CvService
  store,        \* currentCVSubject.value
  storedName,   \* localStorage 'uploadedCvName' (NoName: nothing stored)
  fileReads,    \* FileReader loads started by storeCvInLocalStorage
  \* CvUploadComponent: its fields, and its requests in flight
  up, navTimers, nUploads, uploadReqs, replaceReqs,
  \* CvDisplayComponent: its life cycle, its fields, its requests in flight
  display,      \* "none" | "alive" | "destroyed"
  dc, probePending, loadCount, infoReqs, docReqs, nSaves, saveReqs,
  nPatches, patchReqs,
  \* the browser's object-URL registry
  urlsCreated, urlsRevoked,
  \* exports: calls counted, requests in flight, files handed to saveAs
  nExports, exportReqs, savedFiles

vars == <<store, storedName, fileReads, up, navTimers, nUploads, uploadReqs,
          replaceReqs, display, dc, probePending, loadCount, infoReqs,
          docReqs, nSaves, saveReqs, nPatches, patchReqs, urlsCreated,
          urlsRevoked, nExports, exportReqs, savedFiles>>

serviceVars == <<store, storedName, fileReads>>
uploadVars == <<up, navTimers, nUploads, uploadReqs, replaceReqs>>
previewNet == <<probePending, loadCount, infoReqs, docReqs>>
sessionNet == <<nSaves, saveReqs, nPatches, patchReqs>>
urlVars == <<urlsCreated, urlsRevoked>>
exportVars == <<nExports, exportReqs, savedFiles>>

(***************************************************************************)
(* Reactive form (cvForm)                                                  *)
(*   nom     value of the 'nom' control                                    *)
(*   infoOn  the leaf controls (and the arrays left empty) are enabled     *)
(*   exps    the 'experiences' FormArray: one group per entry, each with   *)
(*           its own enabled flag (on)                                     *)
(*   arrOff  the FormArray's own status is DISABLED                        *)
(***************************************************************************)
\* v || ''
OrEmpty(v) == IF v \in {Null, Absent, ""} THEN "" ELSE v

\* v || null
OrNull(v) == IF v \in {Null, Absent, ""} THEN Null ELSE v

\* FormArray._allControlsDisabled, as updateValueAndValidity applies it
ArrOffAfter(entries, wasOff) ==
  IF \E i \in 1..Len(entries) : entries[i].on THEN FALSE
  ELSE (Len(entries) > 0 \/ wasOff)

RECURSIVE ClearOff(_, _)
ClearOff(entries, off) ==
  IF entries = <<>> THEN off
  ELSE ClearOff(Tail(entries), ArrOffAfter(Tail(entries), off))

initializeForm == [nom |-> "", infoOn |-> TRUE, exps |-> <<>>, arrOff |-> FALSE]

addExperienceToForm(f, exp) ==
  [f EXCEPT !.exps = Append(@, [poste |-> OrEmpty(exp.poste),
                                description |-> OrEmpty(exp.description),
                                on |-> TRUE]),
            !.arrOff = FALSE]

RECURSIVE AddAll(_, _)
AddAll(f, exps) ==
  IF exps = <<>> THEN f ELSE AddAll(addExperienceToForm(f, Head(exps)), Tail(exps))

clearFormArray(f) == [f EXCEPT !.exps = <<>>, !.arrOff = ClearOff(f.exps, f.arrOff)]

FormEnable(f) ==
  [f EXCEPT !.infoOn = TRUE, !.arrOff = FALSE,
            !.exps = [i \in 1..Len(@) |-> [@[i] EXCEPT !.on = TRUE]]]

FormDisable(f) ==
  [f EXCEPT !.infoOn = FALSE, !.arrOff = TRUE,
            !.exps = [i \in 1..Len(@) |-> [@[i] EXCEPT !.on = FALSE]]]

RECURSIVE SelectOn(_)
SelectOn(entries) ==
  IF entries = <<>> THEN <<>>
  ELSE IF Head(entries).on THEN <<Head(entries)>> \o SelectOn(Tail(entries))
  ELSE SelectOn(Tail(entries))

Plain(e) == [poste |-> e.poste, description |-> e.description]

\* cvForm.enabled
FormGroupEnabled(f) == f.infoOn \/ ~f.arrOff

\* getExperiencesFormArray().value
ArrayValue(f) ==
  LET es == IF f.arrOff THEN f.exps ELSE SelectOn(f.exps)
  IN  [i \in 1..Len(es) |-> Plain(es[i])]

\* cvForm.value.nom
FormNom(f) == IF FormGroupEnabled(f) /\ ~f.infoOn THEN Null ELSE f.nom

\* cvForm.valid
FormValid(f) ==
  /\ FormGroupEnabled(f)
  /\ f.infoOn => f.nom # ""
  /\ \A i \in 1..Len(f.exps) : f.exps[i].on => f.exps[i].poste # ""

populateFormOf(f, cv) ==
  LET f1 == [f EXCEPT !.nom = OrEmpty(cv.nom)]
      f2 == clearFormArray(f1)
  IN  IF cv.exps = AbsentSeq THEN f2 ELSE AddAll(f2, cv.exps)
(***************************************************************************)
(* Document preview values                                                 *)
(***************************************************************************)
\* String.prototype.toLowerCase, on the characters file names use
LowerChar(c) ==
  CASE c = "P" -> "p" [] c = "D" -> "d" [] c = "F" -> "f" [] c = "O" -> "o"
    [] c = "C" -> "c" [] c = "X" -> "x" [] c = "T" -> "t" [] OTHER -> c

toLowerCase(name) == [i \in 1..Len(name) |-> LowerChar(name[i])]

\* String.prototype.endsWith
endsWith(name, suffix) ==
  /\ Len(name) >= Len(suffix)
  /\ SubSeq(name, Len(name) - Len(suffix) + 1, Len(name)) = suffix

\* Classify without the conversion of the name to lower case
ClassifyCaseSensitive(filename) ==
  IF endsWith(filename, <<".", "p", "d", "f">>) THEN "pdf"
  ELSE IF endsWith(filename, <<".", "d", "o", "c">>)
          \/ endsWith(filename, <<".", "d", "o", "c", "x">>) THEN "word"
  ELSE "other"

\* loadDocumentPreview, step 2: the type of a document from its file name
Classify(filename) ==
  LET fileName == toLowerCase(filename)
  IN  IF endsWith(fileName, <<".", "p", "d", "f">>) THEN "pdf"
      ELSE IF endsWith(fileName, <<".", "d", "o", "c">>)
              \/ endsWith(fileName, <<".", "d", "o", "c", "x">>) THEN "word"
      ELSE "other"

\* DocumentInfo; forId (history) is the record the lookup was keyed on
NoInfo == [filename |-> NoName, can_preview |-> FALSE,
           needs_conversion |-> FALSE, conversion_available |-> FALSE,
           forId |-> "<none>"]

\* The file the backend keeps for a record
DocName(id) ==
  CASE id = "A" -> NamePdf
    [] id = "C" -> NameDoc
    [] id = "D" -> NameTxt
    [] id = "E" -> NamePdfUpper
    [] id = "F" -> NameBare
    [] id = "G" -> NameDocm
    [] id = "H" -> NamePdfTxt
    [] OTHER -> NameDocx

Descriptors(id) ==
  { [filename |-> DocName(id), can_preview |-> cp, needs_conversion |-> nc,
     conversion_available |-> ca, forId |-> id] : cp, nc, ca \in BOOLEAN }

\* documentUrl: null, or what DomSanitizer.bypassSecurityTrustResourceUrl
\* returns, a SafeResourceUrl object wrapping a data: URL (kind "data") or an
\* object URL (kind "blob", h its handle)
UrlNull == [kind |-> "null", safe |-> FALSE, h |-> 0]
bypassSecurityTrustResourceUrl(kind, h) == [kind |-> kind, safe |-> TRUE, h |-> h]

\* typeof u === 'string'
TypeofString(u) == u.kind # "null" /\ ~u.safe

\* Error texts
ErrNoInfo == "Informations du document non disponibles"
ErrUnsupported == "Apercu non disponible pour ce format de fichier"
ErrConvFailed == "Erreur de conversion du document Word"
ErrConvUnavailable == "Les documents Word ne peuvent pas etre previsualises. Veuillez telecharger le fichier."
ErrEmpty == "Erreur lors du chargement du document"
ErrNotOnServer == "Le document original n'est pas disponible sur le serveur"
ErrWordNoConv == "Les documents Word ne peuvent pas etre previsualises. La conversion PDF n'est pas disponible."
MsgNotFound == "Document non trouve ou non disponible"
MsgFetch == "Erreur lors de la recuperation du document"
MsgServer == "Une erreur est survenue"
ErrSaveFallback == "Erreur de communication avec le serveur"

(***************************************************************************)
(* CvDisplayComponent: the methods, as functions of the component's fields *)
(***************************************************************************)
\* The fields after construction
NewDisplay ==
  [currentCV |-> NoCV, aliased |-> FALSE, form |-> initializeForm,
   isEditMode |-> FALSE, isSaving |-> FALSE, saveError |-> Null,
   lastSavedData |-> NoCV, documentUrl |-> UrlNull, documentType |-> Null,
   isDocumentLoading |-> FALSE, documentLoadError |-> Null,
   documentInfo |-> NoInfo, conversionSupported |-> FALSE,
   showConversionMessage |-> FALSE, timers |-> 0,
   isExportDropdownOpen |-> FALSE]

populateForm(d) ==
  IF d.currentCV = NoCV THEN d
  ELSE [d EXCEPT !.form = populateFormOf(d.form, d.currentCV)]

resetDocumentDisplay(d) ==
  [d EXCEPT !.documentUrl = UrlNull, !.documentType = Null,
            !.documentInfo = NoInfo, !.isDocumentLoading = FALSE,
            !.documentLoadError = Null, !.showConversionMessage = FALSE]

loadStoredDocument(d, name) ==
  IF name # NoName
  THEN [d EXCEPT !.documentUrl = bypassSecurityTrustResourceUrl("data", 0),
                 !.documentType = Classify(name)]
  ELSE resetDocumentDisplay(d)

\* The callback subscribed to currentCV$ in ngOnInit; timers counts the
\* setTimeout(loadDocumentPreview, 500) calls that have not fired yet
OnCurrentCV(d, cv) ==
  IF cv = NoCV THEN d
  ELSE LET d1 == [d EXCEPT !.currentCV = cv, !.aliased = TRUE,
                           !.lastSavedData = cv]
           d2 == resetDocumentDisplay(populateForm(d1))
       IN  [d2 EXCEPT !.timers = @ + 1]

\* currentCVSubject.next(cv): the store takes the object, and the display
\* component, while subscribed, is notified
Notified(d, cv) ==
  IF display = "alive" THEN OnCurrentCV(d, cv)
  ELSE [d EXCEPT !.aliased = FALSE]

\* handleWordDocumentWithoutConversion with the two messages exchanged
handleWordDocumentMessagesSwapped(d, documentInfo) ==
  [d EXCEPT !.documentUrl = UrlNull,
            !.documentLoadError =
               IF documentInfo.conversion_available THEN ErrConvUnavailable
               ELSE ErrConvFailed]

handleWordDocumentWithoutConversion(d, documentInfo) ==
  [d EXCEPT !.documentUrl = UrlNull,
            !.documentLoadError =
               IF documentInfo.conversion_available THEN ErrConvFailed
               ELSE ErrConvUnavailable]

\* JSON.stringify of an array of Experience objects, as a sequence of tokens:
\* a property that is undefined is left out, and JSON.stringify(undefined)
\* is undefined.  Keys are written in the form's order.
StringifyEntry(e) ==
  <<"{">>
  \o (IF e.poste = Absent THEN <<>> ELSE <<"poste:", e.poste>>)
  \o (IF e.description = Absent THEN <<>> ELSE <<"description:", e.description>>)
  \o <<"}">>

RECURSIVE StringifyEntries(_)
StringifyEntries(seq) ==
  IF seq = <<>> THEN <<>>
  ELSE StringifyEntry(Head(seq)) \o StringifyEntries(Tail(seq))

JSONstringify(seq) ==
  IF seq = AbsentSeq THEN <<"undefined">>
  ELSE <<"[">> \o StringifyEntries(seq) \o <<"]">>

\* hasUnsavedChanges without the test of isEditMode
hasUnsavedChangesAnyMode(d) ==
  IF d.currentCV = NoCV \/ d.lastSavedData = NoCV THEN FALSE
  ELSE \/ FormNom(d.form) # d.lastSavedData.nom
       \/ JSONstringify(ArrayValue(d.form)) # JSONstringify(d.lastSavedData.exps)

\* hasUnsavedChanges with the sequences compared by their lengths
hasUnsavedChangesByLength(d) ==
  IF ~d.isEditMode \/ d.currentCV = NoCV \/ d.lastSavedData = NoCV THEN FALSE
  ELSE \/ FormNom(d.form) # d.lastSavedData.nom
       \/ Len(ArrayValue(d.form)) # Len(d.lastSavedData.exps)

\* hasUnsavedChanges: JSON.stringify of the array's value against
\* JSON.stringify of the baseline's sequence (keys in the form's order)
hasUnsavedChanges(d) ==
  IF ~d.isEditMode \/ d.currentCV = NoCV \/ d.lastSavedData = NoCV THEN FALSE
  ELSE \/ FormNom(d.form) # d.lastSavedData.nom
       \/ JSONstringify(ArrayValue(d.form)) # JSONstringify(d.lastSavedData.exps)

\* cancelChanges without the assignment currentCV = {...lastSavedData}
cancelChangesKeepsRecord(d) ==
  IF d.isSaving THEN d
  ELSE LET d2 == populateForm(d)
       IN  [d2 EXCEPT !.isEditMode = FALSE, !.form = FormDisable(@),
                      !.saveError = Null]

cancelChanges(d) ==
  IF d.isSaving THEN d
  ELSE LET d1 == IF d.lastSavedData # NoCV
                 THEN [d EXCEPT !.currentCV = d.lastSavedData,
                                !.aliased = FALSE]
                 ELSE d
           d2 == populateForm(d1)
       IN  [d2 EXCEPT !.isEditMode = FALSE, !.form = FormDisable(@),
                      !.saveError = Null]

\* getErrorMessage, on the Error that CvService.handleError raises
getErrorMessage(message) == IF message # "" THEN message ELSE ErrSaveFallback
(***************************************************************************)
(* Initial state: the application has started on the upload page           *)
(***************************************************************************)
NoDup == [present |-> FALSE, success |-> FALSE, data |-> NoCV, file |-> NoFile]

\* File.name of a file the user can pick
FileName(f) == IF f = "f1" THEN NamePdf ELSE NameDocx

Init ==
  /\ store = NoCV
  /\ storedName = NoName
  /\ fileReads = {}
  /\ up = [selectedFile |-> NoFile, isLoading |-> FALSE, alertType |-> "none",
           showDuplicateModal |-> FALSE, duplicateResponse |-> NoDup]
  /\ navTimers = 0
  /\ nUploads = 0
  /\ uploadReqs = {}
  /\ replaceReqs = {}
  /\ display = "none"
  /\ dc = NewDisplay
  /\ probePending = FALSE
  /\ loadCount = 0
  /\ infoReqs = {}
  /\ docReqs = {}
  /\ nSaves = 0
  /\ saveReqs = {}
  /\ nPatches = 0
  /\ patchReqs = {}
  /\ urlsCreated = 0
  /\ urlsRevoked = {}
  /\ nExports = 0
  /\ exportReqs = {}
  /\ savedFiles = {}

(***************************************************************************)
(* CvUploadComponent                                                       *)
(***************************************************************************)
\* The upload page is the routed page until the display page is opened
OnUploadPage == display = "none"

closeDuplicateModalOf(u) ==
  [u EXCEPT !.showDuplicateModal = FALSE, !.duplicateResponse = NoDup]

\* onFileSelected / onDrop with a file that validateFile accepts
onFileSelected(f) ==
  /\ OnUploadPage
  /\ up' = [up EXCEPT !.selectedFile = f, !.alertType = "none"]
  /\ UNCHANGED <<serviceVars, navTimers, nUploads, uploadReqs, replaceReqs,
                 display, dc, previewNet, sessionNet, urlVars, exportVars>>

clearFile ==
  /\ OnUploadPage
  /\ up' = [up EXCEPT !.selectedFile = NoFile, !.alertType = "none"]
  /\ UNCHANGED <<serviceVars, navTimers, nUploads, uploadReqs, replaceReqs,
                 display, dc, previewNet, sessionNet, urlVars, exportVars>>

uploadCV ==
  /\ OnUploadPage
  /\ nUploads < MaxUploads
  /\ IF up.selectedFile = NoFile
     THEN /\ up' = [up EXCEPT !.alertType = "danger"]
          /\ UNCHANGED <<nUploads, uploadReqs>>
     ELSE /\ up' = [up EXCEPT !.isLoading = TRUE, !.alertType = "none"]
          /\ nUploads' = nUploads + 1
          /\ uploadReqs' = uploadReqs \cup
                             {[n |-> nUploads + 1, file |-> up.selectedFile]}
  /\ UNCHANGED <<serviceVars, navTimers, replaceReqs, display, dc,
                 previewNet, sessionNet, urlVars, exportVars>>

\* The responses POST /upload can give for a file: a CVResponse
UploadResponses(f) ==
  { [success |-> TRUE, is_duplicate |-> FALSE, data |-> rec]
      : rec \in {ServerRecord(f), NoCV} }
  \cup { [success |-> FALSE, is_duplicate |-> FALSE, data |-> NoCV] }
  \cup { [success |-> sc, is_duplicate |-> TRUE, data |-> rec]
           : sc \in BOOLEAN, rec \in Catalogue \cup {NoCV} }

\* storeCvInLocalStorage(this.selectedFile!) and what follows it in a next
\* callback: readAsDataURL(null) throws, which ends the callback
StoreAndNavigate(u) ==
  IF u.selectedFile = NoFile
  THEN /\ up' = u
       /\ UNCHANGED <<fileReads, navTimers>>
  ELSE /\ fileReads' = fileReads \cup {u.selectedFile}
       /\ navTimers' = navTimers + 1
       /\ up' = [u EXCEPT !.alertType = "success", !.isLoading = FALSE]

\* UploadResponse that looks at the success flag before the duplicate flag
UploadResponseSuccessFirst(r, resp) ==
  /\ r \in uploadReqs
  /\ uploadReqs' = uploadReqs \ {r}
  /\ IF resp.success /\ resp.data # NoCV
     THEN /\ store' = resp.data
          /\ dc' = Notified(dc, resp.data)
     ELSE UNCHANGED <<store, dc>>
  /\ IF resp.success
     THEN StoreAndNavigate(up)
     ELSE IF resp.is_duplicate
     THEN /\ up' = [up EXCEPT !.duplicateResponse =
                                 [present |-> TRUE, success |-> resp.success,
                                  data |-> resp.data, file |-> r.file],
                              !.showDuplicateModal = TRUE,
                              !.isLoading = FALSE]
          /\ UNCHANGED <<fileReads, navTimers>>
     ELSE /\ up' = [up EXCEPT !.alertType = "danger", !.isLoading = FALSE]
          /\ UNCHANGED <<fileReads, navTimers>>
  /\ UNCHANGED <<storedName, nUploads, replaceReqs, display, previewNet,
                 sessionNet, urlVars, exportVars>>

\* CvService.uploadCV's tap, then CvUploadComponent.uploadCV's next
UploadResponse(r, resp) ==
  /\ r \in uploadReqs
  /\ uploadReqs' = uploadReqs \ {r}
  /\ IF resp.success /\ resp.data # NoCV
     THEN /\ store' = resp.data
          /\ dc' = Notified(dc, resp.data)
     ELSE UNCHANGED <<store, dc>>
  /\ IF resp.is_duplicate
     THEN /\ up' = [up EXCEPT !.duplicateResponse =
                                 [present |-> TRUE, success |-> resp.success,
                                  data |-> resp.data, file |-> r.file],
                              !.showDuplicateModal = TRUE,
                              !.isLoading = FALSE]
          /\ UNCHANGED <<fileReads, navTimers>>
     ELSE IF resp.success
     THEN StoreAndNavigate(up)
     ELSE /\ up' = [up EXCEPT !.alertType = "danger", !.isLoading = FALSE]
          /\ UNCHANGED <<fileReads, navTimers>>
  /\ UNCHANGED <<storedName, nUploads, replaceReqs, display, previewNet,
                 sessionNet, urlVars, exportVars>>

\* CvUploadComponent.uploadCV's error callback
UploadError(r) ==
  /\ r \in uploadReqs
  /\ uploadReqs' = uploadReqs \ {r}
  /\ up' = [up EXCEPT !.alertType = "danger", !.isLoading = FALSE]
  /\ UNCHANGED <<serviceVars, navTimers, nUploads, replaceReqs, display, dc,
                 previewNet, sessionNet, urlVars, exportVars>>

replaceExistingCV ==
  /\ OnUploadPage
  /\ up.showDuplicateModal
  /\ nUploads < MaxUploads
  /\ IF up.duplicateResponse.present /\ up.duplicateResponse.data # NoCV
        /\ up.selectedFile # NoFile
     THEN /\ up' = [up EXCEPT !.isLoading = TRUE]
          /\ nUploads' = nUploads + 1
          /\ replaceReqs' = replaceReqs \cup
               {[n |-> nUploads + 1, id |-> up.duplicateResponse.data.id,
                 file |-> up.selectedFile,
                 dupFile |-> up.duplicateResponse.file]}
     ELSE /\ up' = closeDuplicateModalOf(up)
          /\ UNCHANGED <<nUploads, replaceReqs>>
  /\ UNCHANGED <<serviceVars, navTimers, uploadReqs, display, dc, previewNet,
                 sessionNet, urlVars, exportVars>>

\* CvService.replaceCVWithFile's tap, then replaceExistingCV's next
ReplaceResponse(r, success, hasData) ==
  /\ r \in replaceReqs
  /\ replaceReqs' = replaceReqs \ {r}
  /\ LET data == [ServerRecord(r.file) EXCEPT !.id = r.id]
     IN  IF success /\ hasData
         THEN /\ store' = data
              /\ dc' = Notified(dc, data)
         ELSE UNCHANGED <<store, dc>>
  /\ IF success
     THEN IF up.selectedFile = NoFile
          THEN /\ up' = [up EXCEPT !.isLoading = FALSE, !.alertType = "success"]
               /\ UNCHANGED <<fileReads, navTimers>>
          ELSE /\ fileReads' = fileReads \cup {up.selectedFile}
               /\ navTimers' = navTimers + 1
               /\ up' = closeDuplicateModalOf(
                          [up EXCEPT !.isLoading = FALSE,
                                     !.alertType = "success"])
     ELSE /\ up' = closeDuplicateModalOf(
                     [up EXCEPT !.isLoading = FALSE, !.alertType = "danger"])
          /\ UNCHANGED <<fileReads, navTimers>>
  /\ UNCHANGED <<storedName, nUploads, uploadReqs, display, previewNet,
                 sessionNet, urlVars, exportVars>>

ReplaceError(r) ==
  /\ r \in replaceReqs
  /\ replaceReqs' = replaceReqs \ {r}
  /\ up' = closeDuplicateModalOf(
             [up EXCEPT !.isLoading = FALSE, !.alertType = "danger"])
  /\ UNCHANGED <<serviceVars, navTimers, nUploads, uploadReqs, display, dc,
                 previewNet, sessionNet, urlVars, exportVars>>

\* The abort decision
closeDuplicateModal ==
  /\ OnUploadPage
  /\ up.showDuplicateModal
  /\ up' = closeDuplicateModalOf(up)
  /\ UNCHANGED <<serviceVars, navTimers, nUploads, uploadReqs, replaceReqs,
                 display, dc, previewNet, sessionNet, urlVars, exportVars>>

\* reader.onload in storeCvInLocalStorage
FileReaderOnload(f) ==
  /\ f \in fileReads
  /\ fileReads' = fileReads \ {f}
  /\ storedName' = FileName(f)
  /\ UNCHANGED <<store, uploadVars, display, dc, previewNet, sessionNet,
                 urlVars, exportVars>>
(***************************************************************************)
(* CvDisplayComponent: life cycle                                          *)
(***************************************************************************)
\* The router creates the component: constructor, then ngOnInit, whose
\* subscription to the BehaviorSubject is served the current record at once
ngOnInit ==
  /\ display' = "alive"
  /\ dc' = LET d0 == loadStoredDocument(NewDisplay, storedName)
           IN  OnCurrentCV(d0, store)
  /\ probePending' = TRUE

\* router.navigate(['/cv/display']) when its setTimeout(1500) fires
NavTimerFires ==
  /\ navTimers > 0
  /\ navTimers' = navTimers - 1
  /\ IF display = "none" THEN ngOnInit
     ELSE UNCHANGED <<display, dc, probePending>>
  /\ UNCHANGED <<serviceVars, up, nUploads, uploadReqs, replaceReqs,
                 loadCount, infoReqs, docReqs, sessionNet, urlVars, exportVars>>

\* The user opens /cv/display
OpenDisplayPage ==
  /\ display = "none"
  /\ ngOnInit
  /\ UNCHANGED <<serviceVars, uploadVars, loadCount, infoReqs, docReqs,
                 sessionNet, urlVars, exportVars>>

\* URL.revokeObjectURL
Revoked(u) == IF u.kind = "blob" THEN urlsRevoked \cup {u.h} ELSE urlsRevoked

\* The user leaves the page
ngOnDestroy ==
  /\ display = "alive"
  /\ display' = "destroyed"
  /\ urlsRevoked' = IF dc.documentUrl # UrlNull /\ TypeofString(dc.documentUrl)
                    THEN Revoked(dc.documentUrl)
                    ELSE urlsRevoked
  /\ UNCHANGED <<serviceVars, uploadVars, dc, previewNet, sessionNet,
                 urlsCreated, exportVars>>

\* checkConversionCapabilities: the answer of GET /conversion/status; the
\* service maps a transport error to conversion_available = false
ConversionStatusResponse(available) ==
  /\ probePending
  /\ probePending' = FALSE
  /\ dc' = [dc EXCEPT !.conversionSupported = available]
  /\ UNCHANGED <<serviceVars, uploadVars, display, loadCount, infoReqs,
                 docReqs, sessionNet, urlVars, exportVars>>

(***************************************************************************)
(* CvDisplayComponent: document preview                                    *)
(***************************************************************************)
\* loadDocumentPreview up to its first await.  load (history) numbers the
\* calls; id is the record the lookup is keyed on
loadDocumentPreview(d) ==
  /\ loadCount < MaxLoads
  /\ loadCount' = loadCount + 1
  /\ IF d.currentCV = NoCV \/ d.currentCV.id = Null
        \/ d.currentCV.fname = NoName
     THEN /\ dc' = resetDocumentDisplay(d)
          /\ UNCHANGED infoReqs
     ELSE /\ dc' = [d EXCEPT !.isDocumentLoading = TRUE,
                             !.documentLoadError = Null,
                             !.showConversionMessage = FALSE]
          /\ infoReqs' = infoReqs \cup
                           {[load |-> loadCount + 1, id |-> d.currentCV.id]}

\* The setTimeout(500) of the currentCV$ callback fires
LoadTimerFires ==
  /\ display # "none"
  /\ dc.timers > 0
  /\ loadDocumentPreview([dc EXCEPT !.timers = @ - 1])
  /\ UNCHANGED <<serviceVars, uploadVars, display, probePending, docReqs,
                 sessionNet, urlVars, exportVars>>

refreshDocumentPreview ==
  /\ display = "alive"
  /\ loadDocumentPreview(dc)
  /\ UNCHANGED <<serviceVars, uploadVars, display, probePending, docReqs,
                 sessionNet, urlVars, exportVars>>

\* InfoResponse with a word document fetched on can_preview alone, without
\* the test of conversionSupported
InfoResponseNoCapability(r, info) ==
  /\ r \in infoReqs
  /\ infoReqs' = infoReqs \ {r}
  /\ LET d1 == [dc EXCEPT !.documentInfo = info]
         d2 == IF info = NoInfo
               THEN [d1 EXCEPT !.documentLoadError = ErrNoInfo]
               ELSE [d1 EXCEPT !.documentType = Classify(info.filename)]
         fetch == /\ info # NoInfo
                  /\ \/ d2.documentType = "pdf"
                     \/ /\ d2.documentType = "word"
                        /\ info.can_preview
         d3 == IF info = NoInfo \/ fetch THEN d2
               ELSE IF d2.documentType = "word"
               THEN handleWordDocumentWithoutConversion(d2, info)
               ELSE [d2 EXCEPT !.documentLoadError = ErrUnsupported]
     IN  /\ dc' = [d3 EXCEPT !.isDocumentLoading = FALSE]
         /\ docReqs' = IF fetch /\ dc.currentCV # NoCV /\ dc.currentCV.id # Null
                       THEN docReqs \cup {[load |-> r.load,
                                           id |-> dc.currentCV.id]}
                       ELSE docReqs
  /\ UNCHANGED <<serviceVars, uploadVars, display, probePending, loadCount,
                 sessionNet, urlVars, exportVars>>

\* InfoResponse that fetches the payload of a document of any other type as
\* it does for a pdf
InfoResponseFetchesAnyType(r, info) ==
  /\ r \in infoReqs
  /\ infoReqs' = infoReqs \ {r}
  /\ LET d1 == [dc EXCEPT !.documentInfo = info]
         d2 == IF info = NoInfo
               THEN [d1 EXCEPT !.documentLoadError = ErrNoInfo]
               ELSE [d1 EXCEPT !.documentType = Classify(info.filename)]
         fetch == /\ info # NoInfo
                  /\ \/ d2.documentType \in {"pdf", "other"}
                     \/ /\ d2.documentType = "word"
                        /\ info.can_preview /\ d2.conversionSupported
         d3 == IF info = NoInfo \/ fetch THEN d2
               ELSE handleWordDocumentWithoutConversion(d2, info)
     IN  /\ dc' = [d3 EXCEPT !.isDocumentLoading = FALSE]
         /\ docReqs' = IF fetch /\ dc.currentCV # NoCV /\ dc.currentCV.id # Null
                       THEN docReqs \cup {[load |-> r.load,
                                           id |-> dc.currentCV.id]}
                       ELSE docReqs
  /\ UNCHANGED <<serviceVars, uploadVars, display, probePending, loadCount,
                 sessionNet, urlVars, exportVars>>

\* loadDocumentPreview after its await, to the end of its finally block;
\* info is NoInfo when the lookup failed or returned nothing.  The payload
\* request of loadDocumentForPreview is keyed on the record current by then
InfoResponse(r, info) ==
  /\ r \in infoReqs
  /\ infoReqs' = infoReqs \ {r}
  /\ LET d1 == [dc EXCEPT !.documentInfo = info]
         d2 == IF info = NoInfo
               THEN [d1 EXCEPT !.documentLoadError = ErrNoInfo]
               ELSE [d1 EXCEPT !.documentType = Classify(info.filename)]
         fetch == /\ info # NoInfo
                  /\ \/ d2.documentType = "pdf"
                     \/ /\ d2.documentType = "word"
                        /\ info.can_preview /\ d2.conversionSupported
         d3 == IF info = NoInfo \/ fetch THEN d2
               ELSE IF d2.documentType = "word"
               THEN handleWordDocumentWithoutConversion(d2, info)
               ELSE [d2 EXCEPT !.documentLoadError = ErrUnsupported]
     IN  /\ dc' = [d3 EXCEPT !.isDocumentLoading = FALSE]
         /\ docReqs' = IF fetch /\ dc.currentCV # NoCV /\ dc.currentCV.id # Null
                       THEN docReqs \cup {[load |-> r.load,
                                           id |-> dc.currentCV.id]}
                       ELSE docReqs
  /\ UNCHANGED <<serviceVars, uploadVars, display, probePending, loadCount,
                 sessionNet, urlVars, exportVars>>

\* DocResponse without the test that raises showConversionMessage
DocResponseNeverFlags(r, size, pdf) ==
  /\ r \in docReqs
  /\ docReqs' = docReqs \ {r}
  /\ IF size = 0
     THEN /\ dc' = [dc EXCEPT !.documentLoadError = ErrEmpty]
          /\ UNCHANGED urlsCreated
     ELSE /\ urlsCreated' = urlsCreated + 1
          /\ dc' = [dc EXCEPT
                      !.documentUrl =
                         bypassSecurityTrustResourceUrl("blob", urlsCreated + 1)]
  /\ UNCHANGED <<serviceVars, uploadVars, display, probePending, loadCount,
                 infoReqs, sessionNet, urlsRevoked, exportVars>>

\* DocResponse that wraps the payload in an object URL whatever its size
DocResponseAcceptsEmpty(r, size, pdf) ==
  /\ r \in docReqs
  /\ docReqs' = docReqs \ {r}
  /\ urlsCreated' = urlsCreated + 1
  /\ dc' = [dc EXCEPT
              !.documentUrl =
                 bypassSecurityTrustResourceUrl("blob", urlsCreated + 1),
              !.showConversionMessage =
                 IF (pdf \/ dc.documentInfo.can_preview)
                    /\ dc.documentType = "word"
                    /\ dc.documentInfo.needs_conversion
                 THEN TRUE ELSE @]
  /\ UNCHANGED <<serviceVars, uploadVars, display, probePending, loadCount,
                 infoReqs, sessionNet, urlsRevoked, exportVars>>

\* getOriginalDocument's next callback: size is the Blob's size, pdf whether
\* its type includes 'pdf'
DocResponse(r, size, pdf) ==
  /\ r \in docReqs
  /\ docReqs' = docReqs \ {r}
  /\ IF size = 0
     THEN /\ dc' = [dc EXCEPT !.documentLoadError = ErrEmpty]
          /\ UNCHANGED urlsCreated
     ELSE /\ urlsCreated' = urlsCreated + 1
          /\ dc' = [dc EXCEPT
                      !.documentUrl =
                         bypassSecurityTrustResourceUrl("blob", urlsCreated + 1),
                      !.showConversionMessage =
                         IF (pdf \/ dc.documentInfo.can_preview)
                            /\ dc.documentType = "word"
                            /\ dc.documentInfo.needs_conversion
                         THEN TRUE ELSE @]
  /\ UNCHANGED <<serviceVars, uploadVars, display, probePending, loadCount,
                 infoReqs, sessionNet, urlsRevoked, exportVars>>

\* DocError that drops the error without setting documentLoadError
DocErrorSwallowed(r, message) ==
  /\ r \in docReqs
  /\ docReqs' = docReqs \ {r}
  /\ UNCHANGED <<serviceVars, uploadVars, display, dc, probePending, loadCount,
                 infoReqs, sessionNet, urlVars, exportVars>>

\* getOriginalDocument's error callback, on the Error its catchError raises
DocError(r, message) ==
  /\ r \in docReqs
  /\ docReqs' = docReqs \ {r}
  /\ dc' = [dc EXCEPT !.documentLoadError =
              IF message = MsgNotFound THEN ErrNotOnServer
              ELSE IF dc.documentType = "word" /\ ~dc.conversionSupported
              THEN ErrWordNoConv
              ELSE message]
  /\ UNCHANGED <<serviceVars, uploadVars, display, probePending, loadCount,
                 infoReqs, sessionNet, urlVars, exportVars>>
(***************************************************************************)
(* CvDisplayComponent: edit session                                        *)
(***************************************************************************)
NomInputs == {"", "n2"}
PosteInputs == {"p2"}
SkillInputs == {" s1 ", "s2", " "}

\* String.prototype.trim, on the inputs above
trim(s) == CASE s = " s1 " -> "s1" [] s = " " -> "" [] OTHER -> s

\* Array.prototype.includes
includes(seq, v) == \E i \in 1..Len(seq) : seq[i] = v

\* Array.prototype.splice(index, 1) on a copy
RemoveAt(seq, i) == SubSeq(seq, 1, i - 1) \o SubSeq(seq, i + 1, Len(seq))

\* An assignment to a field of this.currentCV also changes the store's
\* record while both are the same object
StoreSees(d) == IF d.aliased THEN d.currentCV ELSE store

toggleEditMode ==
  /\ display = "alive"
  /\ dc' = IF dc.isSaving THEN dc
           ELSE LET d1 == [dc EXCEPT !.isEditMode = ~@, !.saveError = Null]
                IN  IF d1.isEditMode
                    THEN [d1 EXCEPT !.lastSavedData =
                                       IF d1.currentCV # NoCV THEN d1.currentCV
                                       ELSE @,
                                    !.form = FormEnable(@)]
                    ELSE LET d2 == [d1 EXCEPT !.form = FormDisable(@)]
                         IN  IF hasUnsavedChanges(d2) THEN cancelChanges(d2)
                             ELSE d2
  /\ UNCHANGED <<serviceVars, uploadVars, display, previewNet, sessionNet,
                 urlVars, exportVars>>

cancelChangesAct ==
  /\ display = "alive"
  /\ dc' = cancelChanges(dc)
  /\ UNCHANGED <<serviceVars, uploadVars, display, previewNet, sessionNet,
                 urlVars, exportVars>>

\* The user types into the 'nom' control, which takes input while enabled
SetNom(v) ==
  /\ display = "alive"
  /\ dc.form.infoOn
  /\ dc' = [dc EXCEPT !.form.nom = v]
  /\ UNCHANGED <<serviceVars, uploadVars, display, previewNet, sessionNet,
                 urlVars, exportVars>>

\* The user types into the 'poste' control of entry i
SetPoste(i, v) ==
  /\ display = "alive"
  /\ i \in 1..Len(dc.form.exps)
  /\ dc.form.exps[i].on
  /\ dc' = [dc EXCEPT !.form.exps[i].poste = v]
  /\ UNCHANGED <<serviceVars, uploadVars, display, previewNet, sessionNet,
                 urlVars, exportVars>>

addExperience ==
  /\ display = "alive"
  /\ Len(dc.form.exps) < MaxExp
  /\ dc' = [dc EXCEPT !.form = addExperienceToForm(@, BlankExp)]
  /\ UNCHANGED <<serviceVars, uploadVars, display, previewNet, sessionNet,
                 urlVars, exportVars>>

removeExperience(i) ==
  /\ display = "alive"
  /\ i \in 1..Len(dc.form.exps)
  /\ LET es == RemoveAt(dc.form.exps, i)
         f == [dc.form EXCEPT !.exps = es,
                              !.arrOff = ArrOffAfter(es, dc.form.arrOff)]
         d1 == [dc EXCEPT !.form = f]
         d2 == IF d1.isEditMode /\ d1.currentCV # NoCV
               THEN [d1 EXCEPT !.currentCV.exps = ArrayValue(f)]
               ELSE d1
     IN  /\ dc' = d2
         /\ store' = StoreSees(d2)
  /\ UNCHANGED <<storedName, fileReads, uploadVars, display, previewNet,
                 sessionNet, urlVars, exportVars>>

\* saveFieldsToBackend: the PATCH request; base (history) is the record as
\* the component holds it when the request leaves. updateCVFields adds
\* updated_at, the time of the call, here the request's number
saveFieldsToBackend(d, newSkills) ==
  IF d.currentCV.id # Null
  THEN /\ nPatches' = nPatches + 1
       /\ patchReqs' = patchReqs \cup
            {[n |-> nPatches + 1, id |-> d.currentCV.id,
              skills |-> newSkills, updated_at |-> nPatches + 1,
              base |-> d.currentCV]}
  ELSE UNCHANGED <<nPatches, patchReqs>>

\* addSkill without the test that the skill is already in the list
addSkillDuplicatesAllowed(skill) ==
  /\ display = "alive"
  /\ nPatches < MaxPatches
  /\ LET trimmedSkill == trim(skill)
         old == IF dc.currentCV.skills = AbsentSkills THEN <<>>
                ELSE dc.currentCV.skills
     IN  IF trimmedSkill = "" \/ dc.currentCV = NoCV
         THEN UNCHANGED <<dc, store, nPatches, patchReqs>>
         ELSE LET newSkills == Append(old, trimmedSkill)
                  d1 == [dc EXCEPT !.currentCV.skills = newSkills]
              IN  /\ dc' = d1
                  /\ store' = StoreSees(d1)
                  /\ saveFieldsToBackend(d1, newSkills)
  /\ UNCHANGED <<storedName, fileReads, uploadVars, display, previewNet,
                 nSaves, saveReqs, urlVars, exportVars>>

addSkill(skill) ==
  /\ display = "alive"
  /\ nPatches < MaxPatches
  /\ LET trimmedSkill == trim(skill)
         old == IF dc.currentCV.skills = AbsentSkills THEN <<>>
                ELSE dc.currentCV.skills
     IN  IF trimmedSkill = "" \/ dc.currentCV = NoCV
            \/ includes(old, trimmedSkill)
         THEN UNCHANGED <<dc, store, nPatches, patchReqs>>
         ELSE LET newSkills == Append(old, trimmedSkill)
                  d1 == [dc EXCEPT !.currentCV.skills = newSkills]
              IN  /\ dc' = d1
                  /\ store' = StoreSees(d1)
                  /\ saveFieldsToBackend(d1, newSkills)
  /\ UNCHANGED <<storedName, fileReads, uploadVars, display, previewNet,
                 nSaves, saveReqs, urlVars, exportVars>>

removeSkill(index) ==
  /\ display = "alive"
  /\ nPatches < MaxPatches
  /\ dc.currentCV # NoCV
  /\ dc.currentCV.skills # AbsentSkills
  /\ index \in 1..Len(dc.currentCV.skills)
  /\ LET newSkills == RemoveAt(dc.currentCV.skills, index)
         d1 == [dc EXCEPT !.currentCV.skills = newSkills]
     IN  /\ dc' = d1
         /\ store' = StoreSees(d1)
         /\ saveFieldsToBackend(d1, newSkills)
  /\ UNCHANGED <<storedName, fileReads, uploadVars, display, previewNet,
                 nSaves, saveReqs, urlVars, exportVars>>

\* CvService.updateCVFields's tap, then saveFieldsToBackend's next, on a
\* response with success and data: the backend answers with the record, the
\* sent fields (the skills and updated_at) applied
PatchResponse(r) ==
  /\ r \in patchReqs
  /\ patchReqs' = patchReqs \ {r}
  /\ LET data == [f \in DOMAIN r.base \cup {"updated_at"} |->
                    IF f = "updated_at" THEN r.updated_at
                    ELSE IF f = "skills" THEN r.skills ELSE r.base[f]]
         d1 == Notified(dc, data)
     IN  /\ store' = data
         /\ dc' = [d1 EXCEPT !.currentCV = data, !.aliased = TRUE]
  /\ UNCHANGED <<storedName, fileReads, uploadVars, display, previewNet,
                 nSaves, saveReqs, nPatches, urlVars, exportVars>>

\* PatchFailure that takes the last skill of the failed request back out of
\* the visible record
PatchFailureRollsBack(r) ==
  /\ r \in patchReqs
  /\ patchReqs' = patchReqs \ {r}
  /\ dc' = [dc EXCEPT !.currentCV.skills =
                         IF @ = r.skills /\ Len(@) > 0
                         THEN SubSeq(@, 1, Len(@) - 1) ELSE @]
  /\ UNCHANGED <<serviceVars, uploadVars, display, previewNet, nSaves,
                 saveReqs, nPatches, urlVars, exportVars>>

\* A response without success or data, or the error callback: the failure is
\* logged and nothing else is done
PatchFailure(r) ==
  /\ r \in patchReqs
  /\ patchReqs' = patchReqs \ {r}
  /\ UNCHANGED <<serviceVars, uploadVars, display, dc, previewNet, nSaves,
                 saveReqs, nPatches, urlVars, exportVars>>

\* onSaveChanges without the test of cvForm.valid
onSaveChangesUnvalidated ==
  /\ display = "alive"
  /\ nSaves < MaxSaves
  /\ IF dc.currentCV = NoCV \/ dc.currentCV.id = Null
     THEN UNCHANGED <<dc, nSaves, saveReqs>>
     ELSE LET updatedCV == [dc.currentCV EXCEPT
                              !.nom = OrNull(FormNom(dc.form)),
                              !.exps = ArrayValue(dc.form)]
          IN  /\ dc' = [dc EXCEPT !.isSaving = TRUE, !.saveError = Null]
              /\ nSaves' = nSaves + 1
              /\ saveReqs' = saveReqs \cup
                   {[n |-> nSaves + 1, data |-> updatedCV]}
  /\ UNCHANGED <<serviceVars, uploadVars, display, previewNet, nPatches,
                 patchReqs, urlVars, exportVars>>

\* onSaveChanges up to the PUT request
onSaveChanges ==
  /\ display = "alive"
  /\ nSaves < MaxSaves
  /\ IF ~FormValid(dc.form) \/ dc.currentCV = NoCV \/ dc.currentCV.id = Null
     THEN UNCHANGED <<dc, nSaves, saveReqs>>
     ELSE LET updatedCV == [dc.currentCV EXCEPT
                              !.nom = OrNull(FormNom(dc.form)),
                              !.exps = ArrayValue(dc.form)]
          IN  /\ dc' = [dc EXCEPT !.isSaving = TRUE, !.saveError = Null]
              /\ nSaves' = nSaves + 1
              /\ saveReqs' = saveReqs \cup
                   {[n |-> nSaves + 1, data |-> updatedCV]}
  /\ UNCHANGED <<serviceVars, uploadVars, display, previewNet, nPatches,
                 patchReqs, urlVars, exportVars>>

\* SaveSuccess without the assignment isEditMode = false
SaveSuccessStaysEditing(r) ==
  /\ r \in saveReqs
  /\ saveReqs' = saveReqs \ {r}
  /\ LET data == r.data
         d1 == Notified(dc, data)
         d2 == [d1 EXCEPT !.isSaving = FALSE, !.currentCV = data,
                          !.aliased = TRUE, !.lastSavedData = data,
                          !.saveError = Null]
         d3 == populateForm(d2)
     IN  /\ store' = data
         /\ dc' = [d3 EXCEPT !.form = FormDisable(@)]
  /\ UNCHANGED <<storedName, fileReads, uploadVars, display, previewNet,
                 nSaves, nPatches, patchReqs, urlVars, exportVars>>

\* SaveSuccess without the call of populateForm
SaveSuccessNoRepopulate(r) ==
  /\ r \in saveReqs
  /\ saveReqs' = saveReqs \ {r}
  /\ LET data == r.data
         d1 == Notified(dc, data)
         d2 == [d1 EXCEPT !.isSaving = FALSE, !.currentCV = data,
                          !.aliased = TRUE, !.lastSavedData = data,
                          !.saveError = Null, !.form = dc.form]
     IN  /\ store' = data
         /\ dc' = [d2 EXCEPT !.isEditMode = FALSE, !.form = FormDisable(@)]
  /\ UNCHANGED <<storedName, fileReads, uploadVars, display, previewNet,
                 nSaves, nPatches, patchReqs, urlVars, exportVars>>

\* CvService.updateCV's tap, then onSaveChanges's next, on a response with
\* success and data: the backend answers with the record it was sent
SaveSuccess(r) ==
  /\ r \in saveReqs
  /\ saveReqs' = saveReqs \ {r}
  /\ LET data == r.data
         d1 == Notified(dc, data)
         d2 == [d1 EXCEPT !.isSaving = FALSE, !.currentCV = data,
                          !.aliased = TRUE, !.lastSavedData = data,
                          !.saveError = Null]
         d3 == populateForm(d2)
     IN  /\ store' = data
         /\ dc' = [d3 EXCEPT !.isEditMode = FALSE, !.form = FormDisable(@)]
  /\ UNCHANGED <<storedName, fileReads, uploadVars, display, previewNet,
                 nSaves, nPatches, patchReqs, urlVars, exportVars>>

\* onSaveChanges's next on a response without success or data: isSaving is
\* cleared, then the callback throws; RxJS reports an error thrown by a next
\* callback to the global handler, not to the subscriber's error callback
SaveRejected(r) ==
  /\ r \in saveReqs
  /\ saveReqs' = saveReqs \ {r}
  /\ dc' = [dc EXCEPT !.isSaving = FALSE]
  /\ UNCHANGED <<serviceVars, uploadVars, display, previewNet, nSaves,
                 nPatches, patchReqs, urlVars, exportVars>>

\* onSaveChanges's error callback, on the Error that handleError raises
SaveError(r, message) ==
  /\ r \in saveReqs
  /\ saveReqs' = saveReqs \ {r}
  /\ dc' = [dc EXCEPT !.isSaving = FALSE,
                      !.saveError = getErrorMessage(message)]
  /\ UNCHANGED <<serviceVars, uploadVars, display, previewNet, nSaves,
                 nPatches, patchReqs, urlVars, exportVars>>

(***************************************************************************)
(* Specification                                                           *)
(***************************************************************************)
UploadNext ==
  \/ \E f \in Files : onFileSelected(f)
  \/ clearFile
  \/ uploadCV
  \/ \E r \in uploadReqs : \E resp \in UploadResponses(r.file) :
        UploadResponse(r, resp)
  \/ \E r \in uploadReqs : UploadError(r)
  \/ replaceExistingCV
  \/ \E r \in replaceReqs : \E sc, hd \in BOOLEAN : ReplaceResponse(r, sc, hd)
  \/ \E r \in replaceReqs : ReplaceError(r)
  \/ closeDuplicateModal
  \/ \E f \in fileReads : FileReaderOnload(f)
  \/ NavTimerFires
  \/ OpenDisplayPage

PreviewNext ==
  \/ ngOnDestroy
  \/ \E b \in BOOLEAN : ConversionStatusResponse(b)
  \/ LoadTimerFires
  \/ refreshDocumentPreview
  \/ \E r \in infoReqs : \E info \in Descriptors(r.id) \cup {NoInfo} :
        InfoResponse(r, info)
  \/ \E r \in docReqs : \E size \in {0, 1}, pdf \in BOOLEAN :
        DocResponse(r, size, pdf)
  \/ \E r \in docReqs : \E m \in {MsgNotFound, MsgFetch} : DocError(r, m)

SessionNext ==
  \/ toggleEditMode
  \/ cancelChangesAct
  \/ \E v \in NomInputs : SetNom(v)
  \/ \E i \in 1..MaxExp : \E v \in PosteInputs : SetPoste(i, v)
  \/ addExperience
  \/ \E i \in 1..MaxExp : removeExperience(i)
  \/ \E s \in SkillInputs : addSkill(s)
  \/ \E i \in 1..MaxSkills : removeSkill(i)
  \/ \E r \in patchReqs : PatchResponse(r)
  \/ \E r \in patchReqs : PatchFailure(r)
  \/ onSaveChanges
  \/ \E r \in saveReqs : SaveSuccess(r)
  \/ \E r \in saveReqs : SaveRejected(r)
  \/ \E r \in saveReqs : SaveError(r, MsgServer)

\* The way to the display page: uploads that the backend accepts, and the
\* navigation that follows
Accepted(f) == [success |-> TRUE, is_duplicate |-> FALSE, data |-> ServerRecord(f)]

ArriveNext ==
  \/ \E f \in Files : onFileSelected(f)
  \/ uploadCV
  \/ \E r \in uploadReqs : UploadResponse(r, Accepted(r.file))
  \/ NavTimerFires

(***************************************************************************)
(* CvDisplayComponent: export                                              *)
(***************************************************************************)
ExportFormats == {"json", "text", "onetech"}

\* new Date() at the call, as formatDate writes it
ExportDates == {"20261105"}

\* The file name and the type exportCV gives the download
ExportFileName(cv, format, date) ==
  LET nom == IF cv.nom \in {Null, Absent, ""} THEN "export" ELSE cv.nom
  IN  CASE format = "json" -> <<"CV_", nom, "_", date, ".json">>
        [] format = "text" -> <<"CV_", nom, "_", date, ".txt">>
        [] OTHER -> <<"CV_", nom, "_OneTech_", date, ".docx">>

ExportFileType(format) ==
  CASE format = "json" -> "application/json"
    [] format = "text" -> "text/plain"
    [] OTHER -> "application/vnd.openxmlformats-officedocument.wordprocessingml.document"

\* exportCV without the test of the identity of the current record
exportCVUnguarded(format, date) ==
  /\ display = "alive"
  /\ nExports < MaxExports
  /\ nExports' = nExports + 1
  /\ exportReqs' = exportReqs \cup
       {[n |-> nExports + 1, id |-> dc.currentCV.id, format |-> format,
         filename |-> ExportFileName(dc.currentCV, format, date)]}
  /\ UNCHANGED <<serviceVars, uploadVars, display, dc, previewNet,
                 sessionNet, urlVars, savedFiles>>

exportCV(format, date) ==
  /\ display = "alive"
  /\ IF dc.currentCV = NoCV \/ dc.currentCV.id = Null
     THEN UNCHANGED <<nExports, exportReqs>>
     ELSE /\ nExports < MaxExports
          /\ nExports' = nExports + 1
          /\ exportReqs' = exportReqs \cup
               {[n |-> nExports + 1, id |-> dc.currentCV.id,
                 format |-> format,
                 filename |-> ExportFileName(dc.currentCV, format, date)]}
  /\ UNCHANGED <<serviceVars, uploadVars, display, dc, previewNet,
                 sessionNet, urlVars, savedFiles>>

\* exportCV's next callback
ExportResponse(r) ==
  /\ r \in exportReqs
  /\ exportReqs' = exportReqs \ {r}
  /\ savedFiles' = savedFiles \cup
       {[n |-> r.n, filename |-> r.filename, type |-> ExportFileType(r.format)]}
  /\ dc' = [dc EXCEPT !.isExportDropdownOpen = FALSE]
  /\ UNCHANGED <<serviceVars, uploadVars, display, previewNet, sessionNet,
                 urlVars, nExports>>

\* exportCV's error callback
ExportError(r) ==
  /\ r \in exportReqs
  /\ exportReqs' = exportReqs \ {r}
  /\ dc' = [dc EXCEPT !.isExportDropdownOpen = FALSE]
  /\ UNCHANGED <<serviceVars, uploadVars, display, previewNet, sessionNet,
                 urlVars, nExports, savedFiles>>

toggleExportDropdown ==
  /\ display = "alive"
  /\ dc' = [dc EXCEPT !.isExportDropdownOpen = ~@]
  /\ UNCHANGED <<serviceVars, uploadVars, display, previewNet, sessionNet,
                 urlVars, exportVars>>

\* The display page opened on a record with or without identity, with or
\* without a name, or on no record
ExportRecords ==
  {RecA, RecB, [RecA EXCEPT !.id = Null], [RecB EXCEPT !.id = Null], NoCV}

InitExport ==
  /\ store \in ExportRecords
  /\ storedName = NoName
  /\ fileReads = {}
  /\ up = [selectedFile |-> NoFile, isLoading |-> FALSE, alertType |-> "none",
           showDuplicateModal |-> FALSE, duplicateResponse |-> NoDup]
  /\ navTimers = 0
  /\ nUploads = 0
  /\ uploadReqs = {}
  /\ replaceReqs = {}
  /\ display = "alive"
  /\ dc = OnCurrentCV(loadStoredDocument(NewDisplay, NoName), store)
  /\ probePending = TRUE
  /\ loadCount = 0
  /\ infoReqs = {}
  /\ docReqs = {}
  /\ nSaves = 0
  /\ saveReqs = {}
  /\ nPatches = 0
  /\ patchReqs = {}
  /\ urlsCreated = 0
  /\ urlsRevoked = {}
  /\ nExports = 0
  /\ exportReqs = {}
  /\ savedFiles = {}

ExportNext ==
  \/ \E f \in ExportFormats : \E d \in ExportDates : exportCV(f, d)
  \/ \E r \in exportReqs : ExportResponse(r)
  \/ \E r \in exportReqs : ExportError(r)
  \/ toggleExportDropdown
  \/ ngOnDestroy

Next == UploadNext \/ PreviewNext \/ SessionNext \/ ExportNext

Spec == Init /\ [][Next]_vars

\* The upload page and the record store
UploadOnlyNext == UploadNext

SpecUpload == Init /\ [][UploadOnlyNext]_vars

\* The display page's document preview
PreviewOnlyNext == ArriveNext \/ PreviewNext

SpecPreview == Init /\ [][PreviewOnlyNext]_vars

\* The way to the display page with a single upload
ArriveOnce ==
  \/ \E f \in Files : onFileSelected(f)
  \/ nUploads = 0 /\ uploadCV
  \/ \E r \in uploadReqs : UploadResponse(r, Accepted(r.file))
  \/ NavTimerFires

\* The display page's edit session: form edits and full saves
SaveFlowNext ==
  \/ ArriveOnce
  \/ toggleEditMode
  \/ cancelChangesAct
  \/ \E v \in NomInputs : SetNom(v)
  \/ \E i \in 1..MaxExp : \E v \in PosteInputs : SetPoste(i, v)
  \/ Len(dc.form.exps) < MaxSaveRows /\ addExperience
  \/ \E i \in 1..MaxExp : removeExperience(i)
  \/ onSaveChanges
  \/ \E r \in saveReqs : SaveSuccess(r)
  \/ \E r \in saveReqs : SaveRejected(r)
  \/ \E r \in saveReqs : SaveError(r, MsgServer)

SpecSession == Init /\ [][SaveFlowNext]_vars

\* The display page's edit session: skill auto-save
AutoSaveNext ==
  \/ ArriveOnce
  \/ toggleEditMode
  \/ cancelChangesAct
  \/ \E v \in NomInputs : SetNom(v)
  \/ \E s \in SkillInputs : addSkill(s)
  \/ \E i \in 1..MaxSkills : removeSkill(i)
  \/ \E r \in patchReqs : PatchResponse(r)
  \/ \E r \in patchReqs : PatchFailure(r)

SpecAutoSave == Init /\ [][AutoSaveNext]_vars

(***************************************************************************)
(* Properties: document preview                                            *)
(***************************************************************************)
\* What the page shows of the preview
PreviewView(d) ==
  <<d.documentUrl, d.documentType, d.isDocumentLoading, d.documentLoadError,
    d.documentInfo, d.showConversionMessage>>

\* The object URLs created and not revoked
LiveHandles == {h \in 1..urlsCreated : h \notin urlsRevoked}

\* C1: a response (metadata or payload, success or error) that belongs to a
\* preview load issued before the most recent one leaves the visible preview
\* state as it is.
C1_StaleResponseDiscarded ==
  [][ ( \/ \E r \in infoReqs : \E info \in Descriptors(r.id) \cup {NoInfo} :
              r.load < loadCount /\ InfoResponse(r, info)
        \/ \E r \in docReqs : \E size \in {0, 1}, pdf \in BOOLEAN :
              r.load < loadCount /\ DocResponse(r, size, pdf)
        \/ \E r \in docReqs : \E m \in {MsgNotFound, MsgFetch} :
              r.load < loadCount /\ DocError(r, m) )
      => PreviewView(dc') = PreviewView(dc) ]_vars

\* C2: in every reachable state at most one object URL is live.
C2_AtMostOneLiveHandle == Cardinality(LiveHandles) <= 1

\* C3: once the component is destroyed and no request or timer is pending,
\* every object URL that was created has been revoked.
C3_NoLeakAfterTeardown ==
  (display = "destroyed" /\ infoReqs = {} /\ docReqs = {} /\ dc.timers = 0)
    => LiveHandles = {}

(***************************************************************************)
(* Properties: edit session, auto-save, upload                             *)
(***************************************************************************)
\* C4: during an edit session at most one full-record update request is in
\* flight at any time.
C4_AtMostOneSaveInFlight == dc.isEditMode => Cardinality(saveReqs) <= 1

\* C5: while the component stays in edit mode, no step changes the baseline
\* lastSavedData.
C5_BaselineFrozenWhileEditing ==
  [][ (display = "alive" /\ dc.isEditMode /\ dc'.isEditMode)
      => dc'.lastSavedData = dc.lastSavedData ]_vars

\* C6: toggleEditMode in edit mode, with a form that differs from the
\* baseline, does what cancel does: the visible record is the baseline, the
\* form is repopulated from it, the component is in view mode.
C6_ToggleOffWhileDirtyCancels ==
  [][ (toggleEditMode /\ dc.isEditMode /\ ~dc.isSaving /\ hasUnsavedChanges(dc))
      => /\ dc'.currentCV = dc.lastSavedData
         /\ dc'.form = FormDisable(populateFormOf(dc.form, dc.lastSavedData))
         /\ ~dc'.isEditMode ]_vars

\* C7: an upload response flagged is_duplicate leaves the record store as it
\* is.
C7_DuplicateResponseKeepsStore ==
  [][ (\E r \in uploadReqs : \E resp \in UploadResponses(r.file) :
          resp.is_duplicate /\ UploadResponse(r, resp))
      => store' = store ]_vars

\* C8: no partial-update request is in flight while the component is in edit
\* mode or saving.
C8_NoPatchWhileEditing ==
  (display = "alive" /\ (dc.isEditMode \/ dc.isSaving)) => patchReqs = {}

\* C9: when a save of an edit session fails, by a transport error or by a
\* response without success, the saving flag is cleared, the component is
\* still in edit mode, the form is as it was, and saveError is set.
C9_SaveFailureSurfaced ==
  [][ (dc.isEditMode /\ dc.isSaving
       /\ \E r \in saveReqs : SaveRejected(r) \/ SaveError(r, MsgServer))
      => /\ ~dc'.isSaving
         /\ dc'.isEditMode
         /\ dc'.form = dc.form
         /\ dc'.saveError # Null ]_vars

\* C10: when a save succeeds, the visible record and the baseline are the
\* record the server returned, the component is in view mode and isSaving is
\* cleared.
C10_SaveSuccessReplaces ==
  [][ \A r \in saveReqs :
        SaveSuccess(r)
        => /\ dc'.currentCV = r.data
           /\ dc'.lastSavedData = r.data
           /\ ~dc'.isEditMode
           /\ ~dc'.isSaving ]_vars

\* An edited name has been saved from edit mode: the server's record, with the
\* new name, is the visible record, the baseline and the store's record
C10_Witness ==
  /\ display = "alive"
  /\ nSaves > 0
  /\ dc.lastSavedData.nom = "n2"
  /\ dc.currentCV = dc.lastSavedData
  /\ store = dc.currentCV
  /\ ~dc.isEditMode
  /\ ~dc.isSaving

\* C11: onSaveChanges in edit mode with an invalid form issues no request,
\* does not set isSaving, and leaves the form, the baseline, the visible
\* record and the store as they are.
C11_InvalidSaveBlocked ==
  [][ (onSaveChanges /\ dc.isEditMode /\ ~FormValid(dc.form))
      => /\ saveReqs' = saveReqs
         /\ patchReqs' = patchReqs
         /\ dc' = dc
         /\ store' = store ]_vars

\* An edit session whose form is invalid (a required control is empty) and
\* in which a save can be requested
C11_Witness ==
  /\ display = "alive"
  /\ dc.isEditMode
  /\ ~dc.isSaving
  /\ dc.currentCV # NoCV
  /\ FormGroupEnabled(dc.form)
  /\ ~FormValid(dc.form)
  /\ nSaves < MaxSaves

\* The form's controls hold the values of record cv (an empty control for a
\* field the record does not have)
FormShows(f, cv) ==
  /\ f.nom = OrEmpty(cv.nom)
  /\ Len(f.exps) = Len(cv.exps)
  /\ \A i \in 1..Len(f.exps) :
        /\ f.exps[i].poste = OrEmpty(cv.exps[i].poste)
        /\ f.exps[i].description = OrEmpty(cv.exps[i].description)

\* The requests in flight
InFlight == <<uploadReqs, replaceReqs, infoReqs, docReqs, saveReqs, patchReqs>>

\* C12: cancel in edit mode (no save in flight) issues no request, leaves
\* the baseline as it is, makes the visible record and the form equal to the
\* baseline and ends edit mode; a second cancel then changes nothing.
C12_CancelRestoresBaseline ==
  [][ (cancelChangesAct /\ dc.isEditMode /\ ~dc.isSaving
       /\ dc.lastSavedData # NoCV)
      => /\ InFlight' = InFlight
         /\ dc'.lastSavedData = dc.lastSavedData
         /\ dc'.currentCV = dc.lastSavedData
         /\ FormShows(dc'.form, dc.lastSavedData)
         /\ ~dc'.isEditMode
         /\ cancelChanges(dc') = dc' ]_vars

\* A cancel has discarded a change: the visible record is a copy of the
\* baseline, while the store still holds the record as the session changed it
C12_Witness ==
  /\ display = "alive"
  /\ ~dc.isEditMode
  /\ ~dc.aliased
  /\ dc.currentCV # NoCV
  /\ dc.currentCV = dc.lastSavedData
  /\ store # dc.currentCV

\* C13: while a full-record update request is in flight, cancel and the
\* edit-mode toggle change nothing: edit mode, form, baseline and visible
\* record stay as they are.
C13_FrozenWhileSaveInFlight ==
  [][ (saveReqs # {} /\ (cancelChangesAct \/ toggleEditMode))
      => /\ dc'.isEditMode = dc.isEditMode
         /\ dc'.form = dc.form
         /\ dc'.lastSavedData = dc.lastSavedData
         /\ dc'.currentCV = dc.currentCV ]_vars

\* C14: hasUnsavedChanges returns false in every state in which the
\* component is not in edit mode, or has no current record, or has no
\* baseline.
C14_NotDirtyOutsideEditing ==
  (~dc.isEditMode \/ dc.currentCV = NoCV \/ dc.lastSavedData = NoCV)
    => ~hasUnsavedChanges(dc)

\* View mode with a record and a baseline, while the form holds a name that
\* is not the baseline's
C14_Witness ==
  /\ display = "alive"
  /\ ~dc.isEditMode
  /\ dc.currentCV # NoCV
  /\ dc.lastSavedData # NoCV
  /\ FormNom(dc.form) # dc.lastSavedData.nom

(***************************************************************************)
(* Dirty detection on records with up to two experiences                   *)
(***************************************************************************)
\* Experiences as a saved form leaves them on a record
F1 == [poste |-> "p1", description |-> ""]
F2 == [poste |-> "p2", description |-> ""]

\* The records the display page is opened on
DirtyRecords ==
  { [id |-> "A", nom |-> n, exps |-> es, skills |-> <<>>, fname |-> NamePdf]
      : n \in {"n1", Null},
        es \in {<<>>, <<E1>>, <<F1>>, <<F1, F2>>, <<F2, F1>>, <<F1, F1>>} }

DirtyPosteInputs == {"p1", "p2"}

\* The display page has just been opened on a record of DirtyRecords
InitDirty ==
  /\ store \in DirtyRecords
  /\ storedName = NoName
  /\ fileReads = {}
  /\ up = [selectedFile |-> NoFile, isLoading |-> FALSE, alertType |-> "none",
           showDuplicateModal |-> FALSE, duplicateResponse |-> NoDup]
  /\ navTimers = 0
  /\ nUploads = 0
  /\ uploadReqs = {}
  /\ replaceReqs = {}
  /\ display = "alive"
  /\ dc = OnCurrentCV(loadStoredDocument(NewDisplay, NoName), store)
  /\ probePending = TRUE
  /\ loadCount = 0
  /\ infoReqs = {}
  /\ docReqs = {}
  /\ nSaves = 0
  /\ saveReqs = {}
  /\ nPatches = 0
  /\ patchReqs = {}
  /\ urlsCreated = 0
  /\ urlsRevoked = {}
  /\ nExports = 0
  /\ exportReqs = {}
  /\ savedFiles = {}

DirtyNext ==
  \/ toggleEditMode
  \/ cancelChangesAct
  \/ \E v \in NomInputs : SetNom(v)
  \/ \E i \in 1..MaxExp : \E v \in DirtyPosteInputs : SetPoste(i, v)
  \/ addExperience
  \/ \E i \in 1..MaxExp : removeExperience(i)

SpecDirty == InitDirty /\ [][DirtyNext]_vars

\* The form's value differs from the baseline: in the name, or in the
\* number, the contents or the order of the experiences
Differs(d) ==
  LET rows == ArrayValue(d.form)
      base == d.lastSavedData.exps
  IN  \/ FormNom(d.form) # d.lastSavedData.nom
      \/ Len(rows) # Len(base)
      \/ \E i \in 1..Len(rows) : rows[i] # base[i]

\* C15: in edit mode, with a record and a baseline, hasUnsavedChanges
\* returns true whenever the form's value differs from the baseline in the
\* name or in the contents or the order of the experiences.
C15_DifferenceIsDirty ==
  (dc.isEditMode /\ dc.currentCV # NoCV /\ dc.lastSavedData # NoCV
   /\ Differs(dc))
    => hasUnsavedChanges(dc)

\* In edit mode the form holds the baseline's name and its two distinct
\* experiences in the other order, and hasUnsavedChanges returns true
C15_Witness ==
  /\ dc.isEditMode
  /\ dc.lastSavedData # NoCV
  /\ FormNom(dc.form) = dc.lastSavedData.nom
  /\ Len(dc.lastSavedData.exps) = 2
  /\ dc.lastSavedData.exps[1] # dc.lastSavedData.exps[2]
  /\ ArrayValue(dc.form) = <<dc.lastSavedData.exps[2], dc.lastSavedData.exps[1]>>
  /\ hasUnsavedChanges(dc)

(***************************************************************************)
(* Properties: preview loads by document type                              *)
(***************************************************************************)
\* C16: when the metadata lookup of the most recent preview load fails or
\* returns nothing (no other request in flight), the load ends with the
\* metadata-unavailable error, not loading, and documentUrl null.
C16_MetadataFailureHoldsNoResource ==
  [][ (\E r \in infoReqs :
          /\ r.load = loadCount
          /\ infoReqs = {r}
          /\ docReqs = {}
          /\ InfoResponse(r, NoInfo))
      => /\ dc'.documentLoadError = ErrNoInfo
         /\ ~dc'.isDocumentLoading
         /\ dc'.documentUrl = UrlNull ]_vars

\* C17: when the descriptor of a load names a word document, a payload
\* request is issued if and only if the descriptor's can_preview and the
\* component's conversionSupported are both true when the descriptor
\* arrives; otherwise none is issued and the load ends with an error, not
\* loading, documentUrl null.
C17_WordFetchOnlyIfConvertible ==
  [][ \A r \in infoReqs : \A info \in Descriptors(r.id) :
        (InfoResponse(r, info) /\ Classify(info.filename) = "word")
        => IF info.can_preview /\ dc.conversionSupported
           THEN /\ Cardinality(docReqs') = Cardinality(docReqs) + 1
                /\ \E q \in docReqs' \ docReqs : q.load = r.load
           ELSE /\ docReqs' = docReqs
                /\ dc'.documentLoadError \in {ErrConvFailed, ErrConvUnavailable}
                /\ ~dc'.isDocumentLoading
                /\ dc'.documentUrl = UrlNull ]_vars

\* The payload of a word document is being fetched: its descriptor allows
\* the preview and the server can convert
C17_Witness ==
  /\ dc.documentType = "word"
  /\ dc.documentInfo.can_preview
  /\ dc.conversionSupported
  /\ \E q \in docReqs : q.id = "B" /\ q.load = loadCount

\* C18 as stated: when the descriptor of a load names a word document and
\* has conversion_available false, the load ends with the
\* conversion-unavailable error, issues no payload request and creates no
\* object URL, whatever can_preview and conversionSupported are.
C18_UnavailableWhateverTheFlags ==
  [][ \A r \in infoReqs : \A info \in Descriptors(r.id) :
        (/\ InfoResponse(r, info)
         /\ Classify(info.filename) = "word"
         /\ ~info.conversion_available)
        => /\ dc'.documentLoadError = ErrConvUnavailable
           /\ ~dc'.isDocumentLoading
           /\ docReqs' = docReqs
           /\ urlsCreated' = urlsCreated ]_vars

\* C18 as amended: the same, for every can_preview and conversionSupported
\* that are not both true when the descriptor arrives.
C18_UnavailableUnlessFetched ==
  [][ \A r \in infoReqs : \A info \in Descriptors(r.id) :
        (/\ InfoResponse(r, info)
         /\ Classify(info.filename) = "word"
         /\ ~info.conversion_available
         /\ ~(info.can_preview /\ dc.conversionSupported))
        => /\ dc'.documentLoadError = ErrConvUnavailable
           /\ dc'.documentLoadError # ErrConvFailed
           /\ ~dc'.isDocumentLoading
           /\ dc'.documentUrl = UrlNull
           /\ docReqs' = docReqs
           /\ urlsCreated' = urlsCreated ]_vars

\* A word document whose descriptor denies both the preview and the
\* conversion has ended its only load with the conversion-unavailable error,
\* on a server that can convert, and no object URL was ever created
C18_Witness ==
  /\ dc.documentType = "word"
  /\ dc.documentInfo # NoInfo
  /\ ~dc.documentInfo.conversion_available
  /\ ~dc.documentInfo.can_preview
  /\ dc.conversionSupported
  /\ dc.documentLoadError = ErrConvUnavailable
  /\ ~dc.isDocumentLoading
  /\ infoReqs = {} /\ docReqs = {}
  /\ urlsCreated = 0

\* The descriptor of a word document that allows the preview and whose
\* server-side conversion is available
Previewable(info) ==
  /\ info # NoInfo
  /\ Classify(info.filename) = "word"
  /\ info.can_preview
  /\ info.conversion_available

\* C19 as stated: when the descriptor of a load names a word document with
\* can_preview and conversion_available true, exactly one payload request
\* is issued, and a non-empty payload of that record arriving while this
\* descriptor is held leaves showConversionMessage true.
C19_PreviewableIsFetchedAndFlagged ==
  [][ /\ \A r \in infoReqs : \A info \in Descriptors(r.id) :
          (InfoResponse(r, info) /\ Previewable(info))
          => Cardinality(docReqs') = Cardinality(docReqs) + 1
      /\ \A r \in docReqs : \A pdf \in BOOLEAN :
          (/\ DocResponse(r, 1, pdf)
           /\ Previewable(dc.documentInfo)
           /\ dc.documentInfo.forId = r.id)
          => dc'.showConversionMessage ]_vars

\* C19 as amended: the payload request is issued (once) when
\* conversionSupported is true as the descriptor arrives and not otherwise,
\* and a non-empty payload arriving while such a descriptor is held with
\* needs_conversion true leaves a document URL and showConversionMessage
\* true.
C19_FetchedIfSupportedFlaggedIfNeeded ==
  [][ /\ \A r \in infoReqs : \A info \in Descriptors(r.id) :
          (InfoResponse(r, info) /\ Previewable(info))
          => IF dc.conversionSupported
             THEN Cardinality(docReqs') = Cardinality(docReqs) + 1
             ELSE docReqs' = docReqs
      /\ \A r \in docReqs : \A pdf \in BOOLEAN :
          (/\ DocResponse(r, 1, pdf)
           /\ Previewable(dc.documentInfo)
           /\ dc.documentInfo.needs_conversion)
          => /\ dc'.showConversionMessage
             /\ dc'.documentUrl # UrlNull ]_vars

\* The converted preview of a word document is displayed and flagged
C19_Witness ==
  /\ Previewable(dc.documentInfo)
  /\ dc.documentInfo.needs_conversion
  /\ dc.documentType = "word"
  /\ dc.documentUrl # UrlNull
  /\ dc.showConversionMessage
  /\ dc.documentLoadError = Null
  /\ urlsCreated = 1

\* C20: when the descriptor of a load names a pdf document, whatever its
\* needs_conversion, can_preview and conversion_available, the document is
\* classified pdf and exactly one payload request is issued; and the
\* arrival of the payload of the pdf record never turns
\* showConversionMessage on, not even when another record has become the
\* current one since the payload was requested.
C20_PdfFetchedOnceNeverFlagged ==
  [][ /\ \A r \in infoReqs : \A info \in Descriptors(r.id) :
          (InfoResponse(r, info) /\ Classify(info.filename) = "pdf")
          => /\ dc'.documentType = "pdf"
             /\ Cardinality(docReqs') = Cardinality(docReqs) + 1
      /\ \A r \in docReqs : \A size \in {0, 1}, pdf \in BOOLEAN :
          (/\ DocResponse(r, size, pdf)
           /\ Classify(DocName(r.id)) = "pdf"
           /\ dc.currentCV.id # r.id
           /\ ~dc.showConversionMessage)
          => ~dc'.showConversionMessage ]_vars

-----------------------------------------------------------------------------
\* The display page opened on one record, whose document has any of the file
\* names; the descriptor carries every combination of flags and declared type

FormatIds == {"A", "B", "C", "D", "E", "F", "G", "H"}

FormatRecords ==
  { [id |-> i, nom |-> Null, exps |-> <<>>, skills |-> <<>>,
     fname |-> DocName(i)] : i \in FormatIds }

MimeTypes == {"application/pdf", "text/plain"}

FormatDescriptors(id) ==
  { [filename |-> DocName(id), can_preview |-> cp, needs_conversion |-> nc,
     conversion_available |-> ca, forId |-> id, type |-> m] :
       cp, nc, ca \in BOOLEAN, m \in MimeTypes }

InitFormats ==
  /\ store \in FormatRecords
  /\ storedName = NoName
  /\ fileReads = {}
  /\ up = [selectedFile |-> NoFile, isLoading |-> FALSE, alertType |-> "none",
           showDuplicateModal |-> FALSE, duplicateResponse |-> NoDup]
  /\ navTimers = 0
  /\ nUploads = 0
  /\ uploadReqs = {}
  /\ replaceReqs = {}
  /\ display = "alive"
  /\ dc = OnCurrentCV(loadStoredDocument(NewDisplay, NoName), store)
  /\ probePending = TRUE
  /\ loadCount = 0
  /\ infoReqs = {}
  /\ docReqs = {}
  /\ nSaves = 0
  /\ saveReqs = {}
  /\ nPatches = 0
  /\ patchReqs = {}
  /\ urlsCreated = 0
  /\ urlsRevoked = {}
  /\ nExports = 0
  /\ exportReqs = {}
  /\ savedFiles = {}

FormatsNext ==
  \/ ngOnDestroy
  \/ \E b \in BOOLEAN : ConversionStatusResponse(b)
  \/ LoadTimerFires
  \/ refreshDocumentPreview
  \/ \E r \in infoReqs : \E info \in FormatDescriptors(r.id) \cup {NoInfo} :
        InfoResponse(r, info)
  \/ \E r \in docReqs : \E size \in {0, 1}, pdf \in BOOLEAN :
        DocResponse(r, size, pdf)
  \/ \E r \in docReqs : \E m \in {MsgNotFound, MsgFetch} : DocError(r, m)

SpecFormats == InitFormats /\ [][FormatsNext]_vars

\* C22: when the descriptor of a load names a document that is neither pdf
\* nor word, no payload request is issued, no object URL is created, and the
\* load ends not loading with the unsupported-format error.
C22_OtherTypeNotFetched ==
  [][ \A r \in infoReqs : \A info \in FormatDescriptors(r.id) :
        (InfoResponse(r, info) /\ Classify(info.filename) = "other")
        => /\ dc'.documentType = "other"
           /\ docReqs' = docReqs
           /\ urlsCreated' = urlsCreated
           /\ dc'.documentUrl = UrlNull
           /\ dc'.documentLoadError = ErrUnsupported
           /\ ~dc'.isDocumentLoading ]_vars

\* A text document has been loaded twice: both loads are over, nothing was
\* fetched, the unsupported-format error is shown
C22_Witness ==
  /\ dc.currentCV.id = "D"
  /\ dc.documentType = "other"
  /\ dc.documentLoadError = ErrUnsupported
  /\ loadCount = 2
  /\ infoReqs = {} /\ docReqs = {}
  /\ urlsCreated = 0

\* C23: the type given to a document depends on the end of its file name
\* only, whatever the case of the letters: a.pdf and e.PdF are pdf, b.DOCX
\* and c.doc are word, and d.txt, the bare name pdf, g.docm and h.pdf.txt are
\* other, for every declared type and every combination of flags of the
\* descriptor.
C23_ClassifiedByExtension ==
  [][ \A r \in infoReqs : \A info \in FormatDescriptors(r.id) :
        InfoResponse(r, info)
        => dc'.documentType =
             CASE info.filename \in {NamePdf, NamePdfUpper} -> "pdf"
               [] info.filename \in {NameDocx, NameDoc} -> "word"
               [] OTHER -> "other" ]_vars

\* A document named e.PdF whose descriptor declares text/plain and denies
\* the preview has been classified pdf
C23_Witness ==
  /\ dc.documentInfo.filename = NamePdfUpper
  /\ dc.documentInfo.type = "text/plain"
  /\ ~dc.documentInfo.can_preview
  /\ dc.documentType = "pdf"

\* C24: documentType is always pdf, word, other or null, and once a load has
\* given the document a type it is never null again, whatever record change
\* or load follows.
C24_TypeNeverBackToNone ==
  [][ /\ dc'.documentType \in {"pdf", "word", "other", Null}
      /\ (loadCount > 0 /\ dc.documentType # Null)
         => dc'.documentType # Null ]_vars

\* C25: while the payload request of the most recent load is in flight the
\* component never shows, all at once, no loading, no document and no
\* error (it is loading until that payload has been applied).
C25_LoadingUntilPayloadApplied ==
  (\E q \in docReqs : q.load = loadCount)
  => \/ dc.isDocumentLoading
     \/ dc.documentUrl # UrlNull
     \/ dc.documentLoadError # Null

-----------------------------------------------------------------------------
\* Properties: skills and their automatic save

\* C26: adding a skill whose trimmed value is already in the skill list of
\* the current record issues no request and changes neither the list nor
\* anything else.
C26_DuplicateSkillRejected ==
  [][ \A s \in SkillInputs :
        (/\ addSkill(s)
         /\ dc.currentCV # NoCV
         /\ dc.currentCV.skills # AbsentSkills
         /\ \E i \in 1..Len(dc.currentCV.skills) :
               dc.currentCV.skills[i] = trim(s))
        => /\ patchReqs' = patchReqs
           /\ nPatches' = nPatches
           /\ dc' = dc
           /\ store' = store ]_vars

\* The list holds s1 from the upload and s2 added by the user, whose save
\* has been answered: adding " s1 " or "s2" again is a duplicate add
C26_Witness ==
  /\ display = "alive"
  /\ dc.currentCV # NoCV
  /\ dc.currentCV.skills = <<"s1", "s2">>
  /\ nPatches = 1
  /\ patchReqs = {}

-----------------------------------------------------------------------------
\* Properties: the duplicate resolver of the upload page

\* C28: a replace request carries the identity of the record reported by the
\* duplicate response and the file whose upload produced that response, even
\* if another file was selected while the modal was open.
C28_ReplaceResubmitsSameFile ==
  [][ replaceExistingCV
      => \A q \in replaceReqs' \ replaceReqs :
            /\ q.id = up.duplicateResponse.data.id
            /\ q.file = up.duplicateResponse.file ]_vars

\* C29: the abort decision closes the modal, drops the duplicate response
\* and the selected file, issues no request and schedules nothing.
C29_AbortDiscardsFile ==
  [][ closeDuplicateModal
      => /\ ~up'.showDuplicateModal
         /\ up'.duplicateResponse = NoDup
         /\ up'.selectedFile = NoFile
         /\ ~up'.isLoading
         /\ uploadReqs' = uploadReqs
         /\ replaceReqs' = replaceReqs
         /\ navTimers' = navTimers ]_vars

\* C30: an upload response flagged as duplicate, whatever its success flag
\* and its record, opens the modal on that response; it does not change the
\* alert, reads no file for the local storage and schedules no navigation.
C30_DuplicateOpensGate ==
  [][ \A r \in uploadReqs : \A resp \in UploadResponses(r.file) :
        (resp.is_duplicate /\ UploadResponse(r, resp))
        => /\ up'.showDuplicateModal
           /\ up'.duplicateResponse.present
           /\ up'.duplicateResponse.data = resp.data
           /\ up'.alertType = up.alertType
           /\ fileReads' = fileReads
           /\ storedName' = storedName
           /\ navTimers' = navTimers ]_vars

\* The modal is open on a duplicate response that reported success: nothing
\* was stored or scheduled and no alert is shown
C30_Witness ==
  /\ up.showDuplicateModal
  /\ up.duplicateResponse.present
  /\ up.duplicateResponse.success
  /\ up.alertType = "none"
  /\ fileReads = {}
  /\ navTimers = 0
  /\ uploadReqs = {}

-----------------------------------------------------------------------------
\* The display page opened on one of the records above, edited and saved,
\* the backend answering each save with the record it was sent

RoundTripNext ==
  \/ toggleEditMode
  \/ \E i \in 1..MaxExp : \E v \in DirtyPosteInputs : SetPoste(i, v)
  \/ addExperience
  \/ \E i \in 1..MaxExp : removeExperience(i)
  \/ onSaveChanges
  \/ \E r \in saveReqs : SaveSuccess(r)

SpecRoundTrip == InitDirty /\ [][RoundTripNext]_vars

\* C31: a save requested in edit mode sends the rows of the form, all of
\* them and in their order; and when the response echoes the record sent,
\* the experiences of the visible record and the rows of the repopulated
\* form are the sequence that was sent, in contents and order.
C31_SaveRoundTripKeepsOrder ==
  [][ /\ (onSaveChanges /\ dc.isEditMode)
         => \A q \in saveReqs' \ saveReqs :
               /\ Len(q.data.exps) = Len(dc.form.exps)
               /\ \A i \in 1..Len(dc.form.exps) :
                     /\ q.data.exps[i].poste = dc.form.exps[i].poste
                     /\ q.data.exps[i].description = dc.form.exps[i].description
      /\ \A r \in saveReqs :
           SaveSuccess(r)
           => /\ dc'.currentCV.exps = r.data.exps
              /\ Len(dc'.form.exps) = Len(r.data.exps)
              /\ \A i \in 1..Len(r.data.exps) :
                    /\ dc'.form.exps[i].poste = r.data.exps[i].poste
                    /\ dc'.form.exps[i].description = r.data.exps[i].description
     ]_vars

\* A record saved once with two rows both retyped to p2, a sequence no
\* record had when the page opened: the visible record and the form show it
C31_Witness ==
  /\ nSaves = 1
  /\ saveReqs = {}
  /\ ~dc.isEditMode
  /\ dc.currentCV.exps = <<F2, F2>>
  /\ Len(dc.form.exps) = 2
  /\ dc.form.exps[1].poste = "p2"
  /\ dc.form.exps[2].poste = "p2"

SpecExport == InitExport /\ [][ExportNext]_vars

\* C32: on a page whose current record has no identity, or that has no
\* current record, no export request is ever issued and no file is ever
\* saved, whichever of the three formats is asked for.
C32_NoExportWithoutIdentity ==
  (dc.currentCV = NoCV \/ dc.currentCV.id = Null)
  => /\ exportReqs = {}
     /\ savedFiles = {}
     /\ nExports = 0

\* The user has opened the export menu on a record that has no identity
C32_Witness ==
  /\ display = "alive"
  /\ dc.currentCV # NoCV
  /\ dc.currentCV.id = Null
  /\ dc.isExportDropdownOpen
  /\ exportReqs = {}

-----------------------------------------------------------------------------
\* The same page when every request is answered and the timer set by the
\* record's arrival fires: HttpClient completes or fails each request, and
\* setTimeout runs its callback

SpecFormatsLive ==
  /\ SpecFormats
  /\ WF_vars(LoadTimerFires)
  /\ WF_vars(\E r \in infoReqs : \E info \in FormatDescriptors(r.id) \cup {NoInfo} :
                InfoResponse(r, info))
  /\ WF_vars(\/ \E r \in docReqs : \E size \in {0, 1}, pdf \in BOOLEAN :
                   DocResponse(r, size, pdf)
             \/ \E r \in docReqs : \E m \in {MsgNotFound, MsgFetch} :
                   DocError(r, m))

\* C33: once a preview load has been started for a record that has an
\* identity and a file name, the component eventually has no request in
\* flight, is not loading, and either has an error set or holds a document
\* URL.
C33_EveryLoadSettles ==
  (loadCount > 0)
  ~> (/\ infoReqs = {} /\ docReqs = {}
      /\ ~dc.isDocumentLoading
      /\ (dc.documentLoadError # Null \/ dc.documentUrl # UrlNull))

\* The first load of the pdf record has ended with its document displayed
\* and no error
C33_Witness ==
  /\ dc.currentCV.id = "A"
  /\ loadCount = 1
  /\ infoReqs = {} /\ docReqs = {}
  /\ ~dc.isDocumentLoading
  /\ dc.documentLoadError = Null
  /\ dc.documentUrl # UrlNull

\* C34: while edit mode is on, a skill auto-save response or a record
\* published by the store leaves the form contents as they were.
C34_FormChangesOnlyByUserEdits ==
  [][(/\ dc.isEditMode
      /\ \/ \E r \in patchReqs : PatchResponse(r)
         \/ ArriveOnce)
     => dc'.form = dc.form]_vars

\* C35: every payload request issued by a preview load asks for the record
\* whose descriptor the load has just used to classify the document and to
\* decide the fetch.
C35_DescriptorAndPayloadSameRecord ==
  [][\A q \in docReqs' \ docReqs : dc'.documentInfo.forId = q.id]_vars

\* C36: once the component is destroyed no object URL is created and the
\* preview fields (document URL, type, loading flag, error, descriptor,
\* conversion message) keep their values.
C36_NoEffectAfterTeardown ==
  [][display = "destroyed"
     => /\ urlsCreated' = urlsCreated
        /\ \A f \in {"documentUrl", "documentType", "isDocumentLoading",
                     "documentLoadError", "documentInfo",
                     "showConversionMessage"} : dc'[f] = dc[f]]_vars

\* C37: when edit mode is entered on a page that has just received its
\* record, before any edit of the form, hasUnsavedChanges returns false.
C37_CleanOnEntry ==
  [][(/\ dc = OnCurrentCV(loadStoredDocument(NewDisplay, NoName), store)
      /\ dc'.isEditMode)
     => ~hasUnsavedChanges(dc')]_vars

\* C38: while edit mode is off no full-record update request is issued and
\* the component does not start saving.
C38_SaveOnlyFromEditing ==
  [][~dc.isEditMode
     => /\ saveReqs' \subseteq saveReqs
        /\ dc'.isSaving => dc.isSaving]_vars

\* C39: two auto-save requests have been issued, the store holds the echo of
\* the second one, and the response to the first one arrives last: the
\* visible skill list is then the list the second request sent.
C39_LatestRequestWins ==
  [][\A r \in patchReqs :
       (/\ PatchResponse(r)
        /\ patchReqs = {r} /\ nPatches = 2 /\ r.n = 1
        /\ "updated_at" \in DOMAIN store /\ store.updated_at = 2)
       => dc'.currentCV.skills = store.skills]_vars

\* C40: when the descriptor of a load names a word document with can_preview
\* and conversion_available true, and the conversion probe has answered
\* that conversion is available or has not answered yet, the load issues
\* its payload request.
C40_FetchWhateverProbeOrder ==
  [][\A r \in infoReqs : \A info \in Descriptors(r.id) :
       (/\ InfoResponse(r, info)
        /\ Previewable(info)
        /\ probePending \/ dc.conversionSupported)
       => \E q \in docReqs' \ docReqs : q.load = r.load]_vars

=============================================================================
